---- MODULE Spec2Model ----
(***************************************************************************)
(* Model of gst-camera-rs (src/main.rs): run() builds an eight-stage       *)
(* GStreamer pipeline, attaches a bus watch, requests Playing, blocks in   *)
(* the GLib main loop until the bus-watch callback quits it, then stops    *)
(* the pipeline and removes the watch; main() prints run()'s error.        *)
(*                                                                         *)
(* Two contexts act: the control context (run/main, tracked by pc) and     *)
(* stage execution, which posts messages on the pipeline's bus.  The bus   *)
(* watch callback runs on the control context, from inside                 *)
(* main_loop.run(), once per queued message.                               *)
(***************************************************************************)
EXTENDS Integers, Sequences, FiniteSets, TLC

VARIABLES
    argv,        \* env::args() as a sequence; argv[1] is the program name
    pc,          \* position of the control context in run()/main()
    step,        \* index of the next statement of the build region
    elements,    \* handles of the elements created so far
    props,       \* properties applied so far: set of <<handle, property, value>>
    added,       \* handles added to the pipeline, in order
    links,       \* directed links <<upstream, downstream>>
    watch,       \* "none" | "attached" | "removed": the bus watch source
    running,     \* the GLib main loop's is_running flag
    loopRuns,    \* number of calls of main_loop.run()
    stateReqs,   \* set_state requests made so far: <<target, succeeded>>
    pipeState,   \* the pipeline's state: "Null" | "Playing"
    bus,         \* messages posted on the bus and not yet popped
    posted,      \* number of messages posted so far
    dispatched,  \* messages handed to the watch callback, in order
    stdout,      \* lines printed by the control context (tags only)
    stderr,      \* lines written to the error stream
    result,      \* what run() returned (NoResult until it returns)
    exitCode,    \* the process exit status: None while it runs, else Some(code)
    signalAt     \* None, or Some(pc) once an external stop request arrived at pc

vars == << argv, pc, step, elements, props, added, links, watch, running,
           loopRuns, stateReqs, pipeState, bus, posted, dispatched, stdout,
           stderr, result, exitCode, signalAt >>

(***************************************************************************)
(* Bounds of the model.                                                    *)
(***************************************************************************)
\* largest number of positional command-line arguments tried
MaxPositional == 3
\* largest number of messages stage execution posts in one run
MaxEvents == 3

(***************************************************************************)
(* Values.                                                                 *)
(***************************************************************************)
ProgName == "gst-camera"
ArgStrings == {"/dev/video0", "out%02d.mp4"}

\* Option<T>: None is the empty sequence, Some(x) is <<x>>
None == << >>
Some(x) == << x >>

\* the exit status is None while the process runs
NoResult == [tag |-> "NoResult", kind |-> "", detail |-> None]
Ok == [tag |-> "Ok", kind |-> "", detail |-> None]
Err(kind, detail) == [tag |-> "Err", kind |-> kind, detail |-> detail]

\* the argument vectors tried: the empty vector, and the program name
\* followed by 0..MaxPositional strings
ArgVectors ==
    { << >> } \cup
    UNION { { << ProgName >> \o s : s \in [1..n -> ArgStrings] } : n \in 0..MaxPositional }

(***************************************************************************)
(* The build region of run(), lines 66-137, statement by statement.        *)
(* A property value is either a command-line argument (by its index in     *)
(* argv, 1-based) or a constant of the program.                            *)
(***************************************************************************)
FromArg(i) == [from |-> "arg", idx |-> i, val |-> None]
Const(v) == [from |-> "const", idx |-> 0, val |-> Some(v)]

\* image/jpeg, width 2592, height 1944 (lines 74-77)
video_caps == [media |-> "image/jpeg", fields |-> << <<"width", 2592>>, <<"height", 1944>> >>]
\* video/x-h264, profile high (lines 96-98)
encode_caps == [media |-> "video/x-h264", fields |-> << <<"profile", "high">> >>]
\* 10u32 (line 91)
KeyIntMax == 10
\* 10000000000u64 (line 109) as base-2^32 digits: 2 * 2^32 + 1410065408
\* (kept in 32 bits only, the value would be 1410065408)
MaxSizeTimeAsU32 == [hi |-> 0, lo |-> 1410065408]
MaxSizeTime == [hi |-> 2, lo |-> 1410065408]

Make(h, factory, name, missing) ==
    [op |-> "make", elem |-> h, factory |-> factory, name |-> name,
     missing |-> missing, prop |-> "", value |-> Const(0)]
SetProp(h, prop, value) ==
    [op |-> "set", elem |-> h, factory |-> "", name |-> None,
     missing |-> "", prop |-> prop, value |-> value]
Whole(op) ==
    [op |-> op, elem |-> "", factory |-> "", name |-> None,
     missing |-> "", prop |-> "", value |-> Const(0)]

BuildScript == <<
    Make("v4l2src", "v4l2src", Some("v4l2src"), "v4l2src"),
    SetProp("v4l2src", "device", FromArg(2)),
    Make("video_filter", "capsfilter", None, "capsfilter"),
    SetProp("video_filter", "caps", Const(video_caps)),
    Make("jpegdec", "jpegdec", Some("jpegdec"), "jpegdec"),
    Make("encode_queue", "queue", Some("encode_queue"), "encode_queue"),
    Make("x264enc", "x264enc", Some("x264enc"), "x264enc"),
    SetProp("x264enc", "key-int-max", Const(KeyIntMax)),
    Make("h264_filter", "capsfilter", Some("h264_filter"), "h264_filter"),
    SetProp("h264_filter", "caps", Const(encode_caps)),
    Make("h264parse", "h264parse", Some("h264parse"), "h264parse"),
    Make("splitmuxsink", "splitmuxsink", Some("splitmuxsink"), "splitmuxsink"),
    SetProp("splitmuxsink", "location", FromArg(3)),
    SetProp("splitmuxsink", "max-size-time", Const(MaxSizeTime)),
    SetProp("splitmuxsink", "send-keyframe-requests", Const(TRUE)),
    Whole("add_many"),
    Whole("link_many")
>>

\* the slice handed to add_many and to link_many (lines 115-124, 127-136)
ChainQueueAfterEncoder ==
    << "v4l2src", "video_filter", "jpegdec", "x264enc",
       "encode_queue", "h264_filter", "h264parse", "splitmuxsink" >>
Chain == << "v4l2src", "video_filter", "jpegdec", "encode_queue",
            "x264enc", "h264_filter", "h264parse", "splitmuxsink" >>

\* the value a set_property statement passes
PropValue(v) == IF v.from = "arg" THEN argv[v.idx] ELSE v.val[1]

\* the links link_many has made when it linked the first k adjacent pairs
LinksOfPrefix(k) == { << Chain[i], Chain[i + 1] >> : i \in 1..k }

(***************************************************************************)
(* Messages on the bus.                                                    *)
(***************************************************************************)
Msg(type, src, error, debug) ==
    [type |-> type, src |-> src, error |-> error, debug |-> debug]

Messages == {
    Msg("Eos", Some("sink0"), "", None),
    Msg("Error", Some("sink0"), "disk full", Some("gstsink.c")),
    Msg("Error", Some("sink0"), "disk full", None),
    Msg("Error", None, "disk full", Some("gstsink.c")),
    Msg("Warning", Some("sink0"), "w1", Some("gstsink.c")),
    Msg("Warning", Some("sink0"), "w1", None),
    Msg("StateChanged", Some("sink0"), "", None),
    Msg("Other", Some("sink0"), "", None) }

(***************************************************************************)
(* Error values and their Display text, as sequences of pieces.            *)
(***************************************************************************)
\* UsageError, lines 10-12
UsageError(prog) == Err("UsageError", << "Usage: ", prog, " <device> <location>" >>)
\* MissingElement, lines 14-16
MissingElement(n) == Err("MissingElement", << "Missing element ", n >>)
\* WatchError, lines 18-20
WatchError == Err("WatchError", << "Bus watch error" >>)
\* errors of the libraries, converted by `?` into failure::Error
LibError(kind) == Err(kind, << kind >>)

\* {:?} of an Option<String>
DebugFmt(d) == IF d = None THEN << "None" >> ELSE << "Some(", d[1], ")" >>

\* the src field of ErrorMessage, lines 155-158 and 169-172
SrcPath(msg) == IF msg.src = None THEN "None" ELSE msg.src[1]

\* Display of ErrorMessage, line 23
ErrorMessageText(msg) ==
    << "Received error from ", SrcPath(msg), ": ", msg.error, " (debug: " >>
    \o DebugFmt(msg.debug) \o << ")" >>

(***************************************************************************)
(* The bus watch callback, lines 143-193.                                  *)
(***************************************************************************)
\* get_debug().unwrap() on a message without debug detail, lines 160 and 174
CallbackPanics(msg) == msg.type \in {"Error", "Warning"} /\ msg.debug = None

\* the arms that call loop_clone.quit(), lines 151 and 165
QuitsOnWarningToo(msg) == msg.type \in {"Eos", "Error", "Warning"}
QuitsLoop(msg) == msg.type \in {"Eos", "Error"}

\* what the callback writes to the error stream, lines 164 and 178
CallbackStderr(msg) ==
    CASE msg.type = "Error" -> << << "Error: " >> \o ErrorMessageText(msg) >>
      [] msg.type = "Warning" -> << << "Warning: " >> \o ErrorMessageText(msg) >>
      [] OTHER -> << >>

\* what the callback prints, lines 146, 150, 181-187
CallbackStdout(msg) ==
    << "Got message" >> \o
    CASE msg.type = "Eos" -> << "End of stream." >>
      [] msg.type = "StateChanged" -> << "State changed" >>
      [] OTHER -> << >>

\* the callback's return value, line 192: TRUE keeps the watch installed
ContinueUntilTermination(msg) == msg.type \notin {"Eos", "Error"}
CallbackContinue(msg) == TRUE

\* how the process can end when the callback panics inside the C main loop:
\* killed by abort (134), or the unwinding reaches the Rust runtime (101)
PanicExitCodes == {134, 101}

(***************************************************************************)
(* Control flow helpers.                                                   *)
(***************************************************************************)
\* the `?` operator: go on when the call succeeded, else return from run()
TryIgnoringFailure(ok, next) == next
Try(ok, next) == IF ok THEN next ELSE "main"

\* the value run() returns after the clean-up, line 210
ReturnValue == Ok

\* the exit status when main() returns, lines 213-218: both arms fall off
\* the end of main
MainExitSwapped(r) == IF r.tag = "Ok" THEN 1 ELSE 0
MainExit(r) == 0

\* what main() writes for run()'s result, lines 214-217
MainStderr(r) == IF r.tag = "Err" THEN << << "Error! " >> \o r.detail >> ELSE << >>

Alive == pc \notin {"exited", "panicked", "aborted", "killed"}

(***************************************************************************)
(* Initial state: the process has just entered run().                      *)
(***************************************************************************)
Init ==
    /\ argv \in ArgVectors
    /\ pc = "args"
    /\ step = 1
    /\ elements = {}
    /\ props = {}
    /\ added = << >>
    /\ links = {}
    /\ watch = "none"
    /\ running = FALSE
    /\ loopRuns = 0
    /\ stateReqs = << >>
    /\ pipeState = "Null"
    /\ bus = << >>
    /\ posted = 0
    /\ dispatched = << >>
    /\ stdout = << >>
    /\ stderr = << >>
    /\ result = NoResult
    /\ exitCode = None
    /\ signalAt = None

(***************************************************************************)
(* The control context: run(), lines 44-211.                               *)
(***************************************************************************)
\* lines 46-54
ParseArgs ==
    /\ pc = "args"
    /\ IF Len(argv) = 0
       THEN \* args[0] of an empty vector: index out of bounds
            /\ pc' = "panicked"
            /\ exitCode' = Some(101)
            /\ stderr' = Append(stderr, << "panicked: ", "index out of bounds" >>)
            /\ UNCHANGED << result, stdout >>
       ELSE IF Len(argv) # 3
       THEN /\ pc' = "main"
            /\ result' = UsageError(argv[1])
            /\ UNCHANGED << exitCode, stderr, stdout >>
       ELSE /\ pc' = "init"
            /\ stdout' = Append(stdout, "device location")
            /\ UNCHANGED << exitCode, stderr, result >>
    /\ UNCHANGED << signalAt, argv, step, elements, props, added, links, watch, running,
                    loopRuns, stateReqs, pipeState, bus, posted, dispatched >>

\* lines 58-64: gst::init()?, MainLoop::new, Pipeline::new
GstInit(ok) ==
    /\ pc = "init"
    /\ pc' = Try(ok, "build")
    /\ result' = IF ok THEN result ELSE LibError("InitError")
    /\ UNCHANGED << signalAt, argv, step, elements, props, added, links, watch, running,
                    loopRuns, stateReqs, pipeState, bus, posted, dispatched,
                    stdout, stderr, exitCode >>

\* where run() goes after a statement of the build region: the watch is
\* attached (line 143) after link_many and before set_state(Playing)
AfterBuildStartsFirst == IF step = Len(BuildScript) THEN "play" ELSE "build"
AfterBuild == IF step = Len(BuildScript) THEN "watch" ELSE "build"

\* ElementFactory::make(..).ok_or(MissingElement(..))? and make_element(..)?
MakeElement(ok) ==
    /\ pc = "build"
    /\ BuildScript[step].op = "make"
    /\ pc' = Try(ok, AfterBuild)
    /\ step' = IF ok THEN step + 1 ELSE step
    /\ elements' = IF ok THEN elements \cup {BuildScript[step].elem} ELSE elements
    /\ result' = IF ok THEN result ELSE MissingElement(BuildScript[step].missing)
    /\ UNCHANGED << signalAt, argv, props, added, links, watch, running, loopRuns,
                    stateReqs, pipeState, bus, posted, dispatched, stdout,
                    stderr, exitCode >>

\* elem.set_property(name, value)?
SetProperty(ok) ==
    /\ pc = "build"
    /\ BuildScript[step].op = "set"
    /\ pc' = Try(ok, AfterBuild)
    /\ step' = IF ok THEN step + 1 ELSE step
    /\ props' = IF ok
                THEN props \cup { << BuildScript[step].elem, BuildScript[step].prop,
                                     PropValue(BuildScript[step].value) >> }
                ELSE props
    /\ result' = IF ok THEN result ELSE LibError("PropertyError")
    /\ UNCHANGED << signalAt, argv, elements, added, links, watch, running, loopRuns,
                    stateReqs, pipeState, bus, posted, dispatched, stdout,
                    stderr, exitCode >>

\* pipeline.add_many(..)?, lines 115-124: stops at the first element the
\* pipeline refuses; k elements were added
AddMany(k) ==
    /\ pc = "build"
    /\ BuildScript[step].op = "add_many"
    /\ k \in 0..Len(Chain)
    /\ pc' = Try(k = Len(Chain), AfterBuild)
    /\ step' = IF k = Len(Chain) THEN step + 1 ELSE step
    /\ added' = SubSeq(Chain, 1, k)
    /\ result' = IF k = Len(Chain) THEN result ELSE LibError("AddError")
    /\ UNCHANGED << signalAt, argv, elements, props, links, watch, running, loopRuns,
                    stateReqs, pipeState, bus, posted, dispatched, stdout,
                    stderr, exitCode >>

\* gst::Element::link_many(..)?, lines 127-136: stops at the first pair that
\* does not link; k pairs were linked
LinkMany(k) ==
    /\ pc = "build"
    /\ BuildScript[step].op = "link_many"
    /\ k \in 0..(Len(Chain) - 1)
    /\ pc' = Try(k = Len(Chain) - 1, AfterBuild)
    /\ step' = IF k = Len(Chain) - 1 THEN step + 1 ELSE step
    /\ links' = LinksOfPrefix(k)
    /\ result' = IF k = Len(Chain) - 1 THEN result ELSE LibError("LinkError")
    /\ UNCHANGED << signalAt, argv, elements, props, added, watch, running, loopRuns,
                    stateReqs, pipeState, bus, posted, dispatched, stdout,
                    stderr, exitCode >>

\* lines 140-194: get_bus, bus.add_watch(closure).ok_or(WatchError)?
AddWatch(ok) ==
    /\ pc = "watch"
    /\ pc' = Try(ok, "play")
    /\ watch' = IF ok THEN "attached" ELSE watch
    /\ result' = IF ok THEN result ELSE WatchError
    /\ UNCHANGED << signalAt, argv, step, elements, props, added, links, running,
                    loopRuns, stateReqs, pipeState, bus, posted, dispatched,
                    stdout, stderr, exitCode >>

\* lines 198-199: pipeline.set_state(Playing)?
SetStatePlaying(ok) ==
    /\ pc = "play"
    /\ stdout' = Append(stdout, "Now playing")
    /\ stateReqs' = Append(stateReqs, << "Playing", ok >>)
    /\ pipeState' = IF ok THEN "Playing" ELSE pipeState
    /\ pc' = Try(ok, "run")
    /\ result' = IF ok THEN result ELSE LibError("StateChangeError")
    /\ UNCHANGED << signalAt, argv, step, elements, props, added, links, watch, running,
                    loopRuns, bus, posted, dispatched, stderr, exitCode >>

\* lines 202-203: main_loop.run() is entered; it sets is_running.  The
\* messages posted before stay queued on the bus.
MainLoopRunDroppingQueue ==
    /\ pc = "run"
    /\ pc' = "waiting"
    /\ stdout' = Append(stdout, "Running...")
    /\ running' = TRUE
    /\ loopRuns' = loopRuns + 1
    /\ bus' = << >>
    /\ UNCHANGED << signalAt, argv, step, elements, props, added, links, watch,
                    stateReqs, pipeState, posted, dispatched, stderr,
                    result, exitCode >>
MainLoopRun ==
    /\ pc = "run"
    /\ pc' = "waiting"
    /\ stdout' = Append(stdout, "Running...")
    /\ running' = TRUE
    /\ loopRuns' = loopRuns + 1
    /\ UNCHANGED << signalAt, argv, step, elements, props, added, links, watch,
                    stateReqs, pipeState, bus, posted, dispatched, stderr,
                    result, exitCode >>

\* the bus watch is a source of the default main context, which only
\* main_loop.run() (line 203) iterates, and only until quit() was called
AnyTimeWatchExists == Alive
InMainLoop == pc = "waiting" /\ running

\* one iteration of the main loop: the bus source pops one message and
\* calls the watch callback (lines 143-193) with it
Dispatch ==
    /\ InMainLoop
    /\ watch = "attached"
    /\ bus # << >>
    /\ LET msg == Head(bus) IN
       /\ bus' = Tail(bus)
       /\ dispatched' = Append(dispatched, msg)
       /\ IF CallbackPanics(msg)
          THEN /\ \E code \in PanicExitCodes : exitCode' = Some(code)
               /\ pc' = "aborted"
               /\ stdout' = stdout \o << "Got message" >>
               /\ stderr' = Append(stderr, << "panicked: ", "called Option::unwrap() on a None value" >>)
               /\ UNCHANGED << running, watch >>
          ELSE /\ stdout' = stdout \o CallbackStdout(msg)
               /\ stderr' = stderr \o CallbackStderr(msg)
               /\ running' = IF QuitsLoop(msg) THEN FALSE ELSE running
               /\ watch' = IF CallbackContinue(msg) THEN watch ELSE "removed"
               /\ UNCHANGED << pc, exitCode >>
    /\ UNCHANGED << signalAt, argv, step, elements, props, added, links, loopRuns,
                    stateReqs, pipeState, posted, result >>

\* line 203: main_loop.run() returns once is_running is false
MainLoopReturn ==
    /\ pc = "waiting"
    /\ ~running
    /\ pc' = "stop"
    /\ UNCHANGED << signalAt, argv, step, elements, props, added, links, watch, running,
                    loopRuns, stateReqs, pipeState, bus, posted, dispatched,
                    stdout, stderr, result, exitCode >>

\* lines 206-207: pipeline.set_state(Null)?
SetStateNull(ok) ==
    /\ pc = "stop"
    /\ stdout' = Append(stdout, "Stopping...")
    /\ stateReqs' = Append(stateReqs, << "Null", ok >>)
    /\ pipeState' = IF ok THEN "Null" ELSE pipeState
    /\ pc' = Try(ok, "remove")
    /\ result' = IF ok THEN result ELSE LibError("StateChangeError")
    /\ UNCHANGED << signalAt, argv, step, elements, props, added, links, watch, running,
                    loopRuns, bus, posted, dispatched, stderr, exitCode >>

\* lines 208-210: glib::source_remove(bus_watch_id); Ok(())
SourceRemove ==
    /\ pc = "remove"
    /\ watch' = "removed"
    /\ result' = ReturnValue
    /\ pc' = "main"
    /\ UNCHANGED << signalAt, argv, step, elements, props, added, links, running,
                    loopRuns, stateReqs, pipeState, bus, posted, dispatched,
                    stdout, stderr, exitCode >>

\* main(), lines 213-218: run() has returned
Main ==
    /\ pc = "main"
    /\ stderr' = stderr \o MainStderr(result)
    /\ exitCode' = Some(MainExit(result))
    /\ pc' = "exited"
    /\ UNCHANGED << signalAt, argv, step, elements, props, added, links, watch, running,
                    loopRuns, stateReqs, pipeState, bus, posted, dispatched,
                    stdout, result >>

(***************************************************************************)
(* Stage execution: while the pipeline is Playing, the elements post       *)
(* messages on the bus, from their own threads.                            *)
(***************************************************************************)
Post(msg) ==
    /\ Alive
    /\ pipeState = "Playing"
    /\ posted < MaxEvents
    /\ bus' = Append(bus, msg)
    /\ posted' = posted + 1
    /\ UNCHANGED << signalAt, argv, pc, step, elements, props, added, links, watch,
                    running, loopRuns, stateReqs, pipeState, dispatched,
                    stdout, stderr, result, exitCode >>

(***************************************************************************)
(* An external stop request (SIGINT, SIGTERM).  run() and main() install   *)
(* no handler, so the signal's default disposition ends the process where  *)
(* it stands.                                                              *)
(***************************************************************************)
ExternalStop ==
    /\ Alive
    /\ signalAt' = Some(pc)
    /\ pc' = "killed"
    /\ exitCode' = Some(130)
    /\ UNCHANGED << argv, step, elements, props, added, links, watch, running,
                    loopRuns, stateReqs, pipeState, bus, posted, dispatched,
                    stdout, stderr, result >>

Control ==
    \/ ParseArgs
    \/ \E ok \in BOOLEAN : GstInit(ok)
    \/ \E ok \in BOOLEAN : MakeElement(ok)
    \/ \E ok \in BOOLEAN : SetProperty(ok)
    \/ \E k \in 0..Len(Chain) : AddMany(k)
    \/ \E k \in 0..(Len(Chain) - 1) : LinkMany(k)
    \/ \E ok \in BOOLEAN : AddWatch(ok)
    \/ \E ok \in BOOLEAN : SetStatePlaying(ok)
    \/ MainLoopRun
    \/ Dispatch
    \/ MainLoopReturn
    \/ \E ok \in BOOLEAN : SetStateNull(ok)
    \/ SourceRemove
    \/ Main

Next ==
    \/ Control
    \/ \E msg \in Messages : Post(msg)
    \/ ExternalStop

Spec == Init /\ [][Next]_vars

\* the control context is a running thread: a step of run()/main() that
\* stays possible is eventually taken
LiveSpec == Spec /\ WF_vars(Control)

(***************************************************************************)
(* Vocabulary of the properties.                                           *)
(***************************************************************************)
Terminating(m) == m.type \in {"Eos", "Error"}
Pieces(text) == { text[i] : i \in DOMAIN text }
Requested(target) == \E i \in DOMAIN stateReqs : stateReqs[i][1] = target
Succeeded(target) == \E i \in DOMAIN stateReqs : stateReqs[i] = << target, TRUE >>
\* the terminating messages handed to the callback, in order
TermDispatched == SelectSeq(dispatched, Terminating)
\* the terminating messages delivered to the bus, in order
TermDelivered == SelectSeq(dispatched \o bus, Terminating)
\* run() has returned to main()
RunReturned == pc \in {"main", "exited"}
\* the result is an error whose text carries the message's source and text
ResultCarries(m) ==
    /\ result.tag = "Err"
    /\ SrcPath(m) \in Pieces(result.detail)
    /\ m.error \in Pieces(result.detail)
FullChain == { Chain[i] : i \in DOMAIN Chain }
BuildKinds == {"InitError", "MissingElement", "PropertyError", "AddError",
               "LinkError", "WatchError"}

(***************************************************************************)
(* Properties.                                                             *)
(***************************************************************************)

\* C1: when the pipeline reached Playing and the first terminating message
\* handed to the callback was an Error, the finished process has run()'s
\* result equal to an error carrying that message's source and text, and a
\* non-zero exit status (stated for the runs whose stop request succeeded).
C1_ErrorIsFinalResult ==
    (/\ pc = "exited"
     /\ Succeeded("Playing")
     /\ Succeeded("Null")
     /\ TermDispatched # << >>
     /\ TermDispatched[1].type = "Error")
    => (ResultCarries(TermDispatched[1]) /\ exitCode # Some(0))

\* C2: whenever run() has returned after the bus watch was attached, the
\* stop (set_state(Null)) was requested and the watch was removed.
C2_CleanupUnconditional ==
    (RunReturned /\ watch # "none") => (Requested("Null") /\ watch = "removed")

\* C3: main_loop.run() returns, and the stop is requested, only after an Eos
\* or Error message was handed to the callback; as long as only Warning,
\* StateChanged and other messages were handed over, the loop's quit flag is
\* unset, run() is still inside main_loop.run() (or the process died there)
\* and no stop was requested.
C3_WaitEndsOnlyOnTermination ==
    /\ (loopRuns > 0 /\ pc \in {"stop", "remove", "main", "exited"})
          => TermDispatched # << >>
    /\ Requested("Null") => TermDispatched # << >>
    /\ (loopRuns > 0 /\ TermDispatched = << >>)
          => (running /\ pc \in {"waiting", "aborted", "killed"} /\ ~Requested("Null"))

\* C3 witness: the loop is still waiting after a Warning and a StateChanged
\* message were handed to the callback
C3_Witness ==
    /\ pc = "waiting"
    /\ running
    /\ TermDispatched = << >>
    /\ \E i \in DOMAIN dispatched : dispatched[i].type = "Warning"
    /\ \E i \in DOMAIN dispatched : dispatched[i].type = "StateChanged"

\* C4: once the loop waits, every Eos or Error message handed to the
\* callback leads to run() having returned with the stop requested and the
\* watch removed, or to a failed stop request (a process ended from outside
\* by a signal is left aside).
C4_TerminationLeadsToReturn ==
    (TermDispatched # << >>)
    ~> \/ RunReturned /\ Requested("Null")
             /\ (watch = "removed" \/ ~Succeeded("Null"))
       \/ pc = "killed"

\* C5: when two terminating messages of different kinds were delivered and
\* the run finished with a successful stop, run()'s result is that of the
\* first one delivered: success for Eos, the error for Error.
C5_FirstWriteWins ==
    (/\ pc = "exited"
     /\ Succeeded("Null")
     /\ Len(TermDelivered) >= 2
     /\ TermDelivered[1].type # TermDelivered[2].type)
    => /\ TermDispatched # << >>
       /\ TermDispatched[1] = TermDelivered[1]
       /\ (TermDelivered[1].type = "Eos" => result = Ok)
       /\ (TermDelivered[1].type = "Error" => ResultCarries(TermDelivered[1]))

\* C6: a process started with a program name and a number of positional
\* arguments other than two, and left to run to its end, ends with a usage
\* message on the error stream and a non-zero exit status, having created
\* no element, no watch and made no state request.
C6_UsageErrorExitsNonZero ==
    (pc = "exited" /\ Len(argv) >= 1 /\ Len(argv) - 1 # 2)
    => /\ exitCode # Some(0)
       /\ \E i \in DOMAIN stderr : "Usage: " \in Pieces(stderr[i])
       /\ elements = {} /\ added = << >> /\ links = {}
       /\ watch = "none" /\ stateReqs = << >> /\ loopRuns = 0

\* C7: a process whose run() returned a build or control failure ends with
\* a non-zero exit status and the failure's text on the error stream.
C7_FailureExitsNonZero ==
    (/\ pc = "exited"
     /\ result.tag = "Err"
     /\ result.kind \in (BuildKinds \ {"InitError"}) \cup {"StateChangeError"})
    => /\ exitCode # Some(0)
       /\ \E i \in DOMAIN stderr : stderr[i] = << "Error! " >> \o result.detail

\* C8: a state change is requested only on a pipeline whose eight elements
\* were all created, configured, added and linked and whose watch was
\* attached; after a build or watch failure no state change was requested
\* and the main loop was not entered; the main loop is entered only after a
\* successful request for Playing.
C8_NoPartialPipelineExecution ==
    /\ stateReqs # << >>
          => /\ elements = FullChain
             /\ Cardinality(props) = 7
             /\ added = Chain
             /\ links = LinksOfPrefix(Len(Chain) - 1)
             /\ watch # "none"
    /\ (result.tag = "Err" /\ result.kind \in BuildKinds)
          => (stateReqs = << >> /\ loopRuns = 0)
    /\ loopRuns > 0 => (stateReqs # << >> /\ stateReqs[1] = << "Playing", TRUE >>)
    /\ (stateReqs # << >> /\ stateReqs[1] = << "Playing", FALSE >>) => loopRuns = 0

\* C8 witness: link_many failed part-way and the process ended without a
\* state request
C8_Witness ==
    /\ pc = "exited"
    /\ result.kind = "LinkError"
    /\ links # {}
    /\ added = Chain

\* C9: when the pipeline reached Playing, every terminating message handed
\* to the callback was an Eos and the stop succeeded, the finished process
\* has run() returning success and exit status 0.
C9_EosExitsZero ==
    (/\ pc = "exited"
     /\ Succeeded("Playing")
     /\ TermDispatched # << >>
     /\ \A i \in DOMAIN TermDispatched : TermDispatched[i].type = "Eos"
     /\ Succeeded("Null"))
    => (result = Ok /\ exitCode = Some(0))

\* C9 witness: a run that saw a Warning, then Eos, stopped and exited
C9_Witness ==
    /\ pc = "exited"
    /\ Succeeded("Null")
    /\ Len(dispatched) >= 2
    /\ dispatched[Len(dispatched)].type = "Eos"
    /\ \E i \in DOMAIN dispatched : dispatched[i].type = "Warning"
    /\ result = Ok

\* C10: handing a Warning message to the callback writes exactly one
\* Warning line for it on the error stream and changes nothing else of the
\* control state: the quit flag, the watch and run()'s position stay as
\* they were, so the loop goes on dispatching.
C10_WarningOnlyReported ==
    [][ (/\ Len(dispatched') = Len(dispatched) + 1
         /\ dispatched'[Len(dispatched')].type = "Warning")
        => /\ stderr' = Append(stderr, << "Warning: " >>
                                 \o ErrorMessageText(dispatched'[Len(dispatched')]))
           /\ running' = running
           /\ watch' = watch
           /\ pc' = pc
           /\ exitCode' = exitCode ]_vars

\* a step that hands message m to the callback
Dispatches(m) ==
    /\ Len(dispatched') = Len(dispatched) + 1
    /\ dispatched'[Len(dispatched')] = m
\* the build region has run to its end
FullyBuilt ==
    /\ elements = FullChain
    /\ Cardinality(props) = 7
    /\ added = Chain
    /\ links = LinksOfPrefix(Len(Chain) - 1)
NullRequests == SelectSeq(stateReqs, LAMBDA r : r[1] = "Null")

\* C11: handing an Error or Warning message without debug detail to the
\* callback completes normally: the record is written to the error stream
\* with absent debug detail, the process goes on, and the loop is quit for
\* an Error and left running for a Warning, as for a message with debug
\* detail.
C11_DebugDetailOptional ==
    [][ \A m \in Messages :
          (Dispatches(m) /\ m.type \in {"Error", "Warning"} /\ m.debug = None)
          => /\ pc' = pc
             /\ exitCode' = exitCode
             /\ \E i \in DOMAIN stderr' :
                   /\ i > Len(stderr)
                   /\ SrcPath(m) \in Pieces(stderr'[i])
                   /\ m.error \in Pieces(stderr'[i])
             /\ running' = (IF m.type = "Error" THEN FALSE ELSE running) ]_vars

\* C12 as claimed: the watch is attached only after the transition to
\* Playing was requested.
C12_StartThenAttach ==
    watch # "none" => Requested("Playing")

\* C12 amended: the watch is attached only on the fully built and linked
\* pipeline, Playing is requested only after the watch was attached, and
\* the main loop is entered only after Playing was requested successfully.
C12_BuildAttachStartWait ==
    /\ watch # "none" => FullyBuilt
    /\ stateReqs # << >> => (watch # "none" /\ FullyBuilt)
    /\ (watch = "none" \/ ~FullyBuilt) => (stateReqs = << >> /\ loopRuns = 0)
    /\ loopRuns > 0 => (Succeeded("Playing") /\ watch # "none")
    /\ pc \in {"run", "waiting"} => (watch = "attached" /\ Succeeded("Playing"))

\* C12 witness: the watch is attached on the built pipeline and Playing has
\* not been requested yet
C12_Witness ==
    /\ pc = "play"
    /\ watch = "attached"
    /\ FullyBuilt
    /\ stateReqs = << >>

\* C13: the stop is requested at most once, only after the wait has ended
\* and only in a run that reached the wait; once it was requested, run() is
\* about to remove the watch or has removed it; and a finished run that
\* reached the wait requested the stop exactly once and removed the watch.
C13_StopThenDetach ==
    /\ Len(NullRequests) <= 1
    /\ Requested("Null") => (loopRuns > 0 /\ ~running /\ pc # "waiting")
    /\ Requested("Null") => (watch = "removed" \/ pc \in {"remove", "killed"})
    /\ (pc = "exited" /\ loopRuns > 0)
          => (Len(NullRequests) = 1 /\ watch = "removed")

\* C14: an external stop request that arrives while the loop waits sets the
\* quit flag and leaves the process running, and a process that received
\* one during the wait and has ended has requested the stop and removed the
\* watch.
C14_ExternalStopUnblocks ==
    signalAt = Some("waiting")
    => /\ ~running
       /\ pc # "killed"
       /\ (~Alive => (Requested("Null") /\ watch = "removed"))

\* the factory of the element behind a handle
FactoryOf(h) ==
    BuildScript[CHOOSE i \in DOMAIN BuildScript :
                    BuildScript[i].op = "make" /\ BuildScript[i].elem = h].factory
Linked == { l[1] : l \in links } \cup { l[2] : l \in links }
OutDegree(h) == Cardinality({ l \in links : l[1] = h })
InDegree(h) == Cardinality({ l \in links : l[2] = h })
\* the stage kinds in pipeline order
StageKinds == << "v4l2src", "capsfilter", "jpegdec", "queue", "x264enc",
                 "capsfilter", "h264parse", "splitmuxsink" >>
\* the walk along the links from h, at most n links long
RECURSIVE Walk(_, _)
Walk(h, n) ==
    IF n = 0 \/ OutDegree(h) = 0
    THEN << h >>
    ELSE << h >> \o Walk(CHOOSE g \in Linked : << h, g >> \in links, n - 1)
\* the walk from the element without an incoming link
WalkFromSource == Walk(CHOOSE h \in Linked : InDegree(h) = 0, Cardinality(links))
\* p visits every linked element once and its steps are exactly the links
IsPath(p) ==
    /\ Len(p) = Cardinality(Linked)
    /\ { p[i] : i \in DOMAIN p } = Linked
    /\ \A i, j \in DOMAIN p : i # j => p[i] # p[j]
    /\ links = { << p[i], p[i + 1] >> : i \in 1..(Len(p) - 1) }

\* C15: whenever the pipeline is Playing, the links form one simple path
\* over exactly the eight created elements, whose kinds are in order capture
\* source, capsfilter (image/jpeg), JPEG decoder, queue, H.264 encoder,
\* capsfilter (video/x-h264), parser, segmenting sink: one source, one sink,
\* out-degree one except at the sink, in-degree one except at the source,
\* and every linked element was added to the pipeline.
C15_LinearChainWhilePlaying ==
    pipeState = "Playing"
    => /\ Linked = elements
       /\ Cardinality(elements) = 8
       /\ Cardinality({ h \in Linked : InDegree(h) = 0 }) = 1
       /\ Cardinality({ h \in Linked : OutDegree(h) = 0 }) = 1
       /\ \A h \in Linked : InDegree(h) <= 1 /\ OutDegree(h) <= 1
       /\ \A h \in Linked : \E i \in DOMAIN added : added[i] = h
       /\ LET p == WalkFromSource IN
             /\ IsPath(p)
             /\ Len(p) = 8
             /\ \A i \in 1..8 : FactoryOf(p[i]) = StageKinds[i]
             /\ << p[2], "caps", video_caps >> \in props
             /\ << p[6], "caps", encode_caps >> \in props

\* C15 witness: the loop waits on the playing pipeline
C15_Witness ==
    /\ pipeState = "Playing"
    /\ pc = "waiting"
    /\ Cardinality(links) = 7

\* a u64 held as base-2^32 digits, converted to base-100000 digits
\* << high, low >>: 2^32 = 42949 * 100000 + 67296
InBase100000(v) ==
    LET low == v.hi * 67296 + (v.lo % 100000)
        high == v.hi * 42949 + (v.lo \div 100000) + (low \div 100000)
    IN << high, low % 100000 >>
\* 10 seconds in nanoseconds, 10 * 10^9 = 100000 * 100000
TenSecondsNs == << 100000, 0 >>

\* C16: once the transition to Playing was requested, the capture element
\* holds argv's device string and the sink argv's location string, the
\* sink's max-size-time is 10 seconds in nanoseconds, a value of two
\* base-2^32 digits, its send-keyframe-requests is true, and the encoder
\* holds a key-int-max.
C16_ConfigurationApplied ==
    Requested("Playing")
    => /\ \A t \in props : t[1] = "v4l2src" /\ t[2] = "device" => t[3] = argv[2]
       /\ << "v4l2src", "device", argv[2] >> \in props
       /\ \A t \in props : t[1] = "splitmuxsink" /\ t[2] = "location" => t[3] = argv[3]
       /\ << "splitmuxsink", "location", argv[3] >> \in props
       /\ \E t \in props :
             /\ t[1] = "splitmuxsink" /\ t[2] = "max-size-time"
             /\ InBase100000(t[3]) = TenSecondsNs
             /\ t[3].hi >= 0 /\ t[3].lo >= 0
       /\ << "splitmuxsink", "send-keyframe-requests", TRUE >> \in props
       /\ \E t \in props : t[1] = "x264enc" /\ t[2] = "key-int-max" /\ t[3] > 0

\* C16 witness: Playing is requested with a device that differs from the
\* location
C16_Witness ==
    /\ Requested("Playing")
    /\ argv[2] = "/dev/video0"
    /\ argv[3] = "out%02d.mp4"

\* C17: a terminating message that is queued on the bus while run() is
\* between set_state(Playing) and main_loop.run(), or already waiting, leads
\* to the end of the wait: run() does not stay in main_loop.run() with it.
C17_NoLostWakeup ==
    (/\ pc \in {"run", "waiting"}
     /\ watch = "attached"
     /\ \E i \in DOMAIN bus : Terminating(bus[i]))
    ~> (pc \notin {"run", "waiting"})

\* C17 witness: a terminating message is queued before the loop is entered
C17_Witness ==
    /\ pc = "run"
    /\ watch = "attached"
    /\ loopRuns = 0
    /\ bus # << >>
    /\ Terminating(bus[1])

\* C18: a message is handed to the callback only while run() is inside
\* main_loop.run() with the quit flag unset, and that step makes no state
\* request and changes nothing of the pipeline's structure.
C18_DispatchOnlyInsideWait ==
    [][ dispatched' # dispatched
        => /\ pc = "waiting"
           /\ running
           /\ loopRuns > 0
           /\ stateReqs' = stateReqs
           /\ pipeState' = pipeState
           /\ << elements', props', added', links' >> = << elements, props, added, links >> ]_vars

\* C18 witness: the wait has returned with a message still on the bus
C18_Witness ==
    /\ pc \in {"stop", "remove"}
    /\ dispatched # << >>
    /\ bus # << >>

\* C19: the watch changes from attached only in source_remove; run() is at
\* source_remove only with the watch attached, and after source_remove the
\* watch is removed and run() has returned.
C19_WatchStaysUntilDetach ==
    /\ [](pc = "remove" => watch = "attached")
    /\ [](watch = "removed" => RunReturned \/ pc = "killed")
    /\ [][ (watch = "attached" /\ watch' # "attached")
           => (pc = "remove" /\ pc' = "main" /\ watch' = "removed") ]_vars
    /\ [][ (watch = "removed") => (watch' = "removed") ]_vars

\* C19 witness: the watch was removed after an Error and a Warning were
\* handed to the callback
C19_Witness ==
    /\ watch = "removed"
    /\ TermDispatched # << >>
    /\ TermDispatched[1].type = "Error"
    /\ \E i \in DOMAIN dispatched : dispatched[i].type = "Warning"

====
